---------------------------- MODULE Spec2Model ----------------------------
(***************************************************************************)
(* A model of download_packages.py: the batch script that reads            *)
(* collection.json, and for every package entry clones or updates a        *)
(* working copy under packages/ and checks out the requested version       *)
(* through the four-variant fallback sequence.                             *)
(*                                                                         *)
(* Strings that the program takes apart or builds (URLs, version labels,   *)
(* refs, directory names) are sequences of one-character strings, so that  *)
(* endswith, strip, split, urlparse and the f-strings are computed, not    *)
(* assumed.  Paths are sequences of path segments relative to the          *)
(* directory the script is started in.                                     *)
(***************************************************************************)
EXTENDS Integers, Sequences, FiniteSets

VARIABLES
    collection,   \* the file collection.json of the current directory (input)
    repo,         \* what is known of the refs a working copy holds (environment)
    st,           \* the run: main()'s locals, the callee's locals, the filesystem
    alt,          \* a second run over the same inputs, used by SpecPair only
    flip          \* SpecPair: the entry whose clone fails in st and succeeds in alt

vars == <<collection, repo, st, alt, flip>>

---------------------------------------------------------------------------
(* Bounds of the model.                                                    *)

MaxPackages == 2

---------------------------------------------------------------------------
(* String constants.                                                       *)

GIT_SUFFIX == <<".","g","i","t">>
TAGS_PREFIX == <<"t","a","g","s","/">>
V_PREFIX == <<"v">>
UNKNOWN == <<"u","n","k","n","o","w","n">>
PACKAGES == <<"p","a","c","k","a","g","e","s">>

U_FOO_GIT == <<"h","t","t","p","s",":","/","/","e","x","a","m","p","l","e",".","c","o","m","/","o","r","g","/","f","o","o",".","g","i","t">>
U_FOO_OTHER == <<"h","t","t","p","s",":","/","/","e","x","a","m","p","l","e",".","c","o","m","/","o","t","h","e","r","/","f","o","o">>
U_BAR == <<"h","t","t","p","s",":","/","/","e","x","a","m","p","l","e",".","c","o","m","/","o","r","g","/","b","a","r",".","g","i","t">>
U_ROOT == <<"h","t","t","p","s",":","/","/","e","x","a","m","p","l","e",".","c","o","m">>
U_BAD == <<"h","t","t","p","s",":","/","/","[","e","x","a","m","p","l","e",".","c","o","m","/","o","r","g","/","f","o","o",".","g","i","t">>
V_120 == <<"1",".","2",".","0">>
V_20 == <<"2",".","0">>
N_FOO == <<"f","o","o">>
N_BAR == <<"b","a","r">>

---------------------------------------------------------------------------
(* LetIn(e, LAMBDA v : body) is LET v == e IN body with e evaluated once.  *)

LetIn(e, Body(_)) == CHOOSE r \in {Body(v) : v \in {e}} : TRUE

---------------------------------------------------------------------------
(* str methods used by the program.                                        *)

\* s.endswith(suffix)
EndsWith(s, suffix) ==
    /\ Len(s) >= Len(suffix)
    /\ SubSeq(s, Len(s) - Len(suffix) + 1, Len(s)) = suffix

\* c in s
Contains(s, c) == \E k \in 1..Len(s) : s[k] = c

\* s.find(c, start) with 1-based positions; 0 when there is none
Find(s, c, start) ==
    LetIn({k \in start..Len(s) : s[k] = c}, LAMBDA hits :
        IF hits = {} THEN 0 ELSE CHOOSE k \in hits : \A j \in hits : k <= j)

\* s.rfind(c) with 1-based positions; 0 when there is none
RFind(s, c) ==
    LetIn({k \in 1..Len(s) : s[k] = c}, LAMBDA hits :
        IF hits = {} THEN 0 ELSE CHOOSE k \in hits : \A j \in hits : k >= j)

\* s.strip(c): leading and trailing c removed
Strip(s, c) ==
    LetIn({k \in 1..Len(s) : s[k] # c}, LAMBDA keep :
        IF keep = {} THEN <<>>
        ELSE SubSeq(s, CHOOSE k \in keep : \A j \in keep : k <= j,
                       CHOOSE k \in keep : \A j \in keep : k >= j))

\* s.split(c): never empty, ''.split('/') is ['']
RECURSIVE Split(_, _)
Split(s, c) ==
    LetIn(Find(s, c, 1), LAMBDA k :
        IF k = 0 THEN <<s>>
        ELSE LetIn(SubSeq(s, k + 1, Len(s)), LAMBDA rest :
                 <<SubSeq(s, 1, k - 1)>> \o Split(rest, c)))

\* s.split(c, 1)[0]: s up to the first c, all of s when there is none
Before(s, c) ==
    LetIn(Find(s, c, 1), LAMBDA k : IF k = 0 THEN s ELSE SubSeq(s, 1, k - 1))

LOWER == <<"a","b","c","d","e","f","g","h","i","j","k","l","m","n","o","p","q","r","s","t","u","v","w","x","y","z">>
UPPER == <<"A","B","C","D","E","F","G","H","I","J","K","L","M","N","O","P","Q","R","S","T","U","V","W","X","Y","Z">>
DIGITS == <<"0","1","2","3","4","5","6","7","8","9">>

Range(s) == {s[k] : k \in 1..Len(s)}

ascii_lowercase == Range(LOWER)
ascii_uppercase == Range(UPPER)
ascii_letters == ascii_lowercase \cup ascii_uppercase

\* c.isascii() and c.isalpha()
IsAlpha(c) == c \in ascii_letters

\* s.lower()
LowerChar(c) ==
    IF c \in ascii_uppercase THEN LOWER[CHOOSE k \in 1..26 : UPPER[k] = c] ELSE c

Lower(s) == [k \in 1..Len(s) |-> LowerChar(s[k])]

---------------------------------------------------------------------------
(* urllib.parse.urlparse, as far as get_repo_name_from_url reads it.       *)

scheme_chars == ascii_letters \cup Range(DIGITS) \cup {"+", "-", "."}

uses_params == {<<>>, <<"f","t","p">>, <<"h","d","l">>, <<"p","r","o","s","p","e","r","o">>, <<"h","t","t","p">>, <<"i","m","a","p">>, <<"h","t","t","p","s">>, <<"s","h","t","t","p">>, <<"r","t","s","p">>, <<"r","t","s","p","s">>, <<"r","t","s","p","u">>, <<"s","i","p">>, <<"s","i","p","s">>, <<"m","m","s">>, <<"s","f","t","p">>, <<"t","e","l">>}

\* _splitnetloc(url, 2): the position of the first of / ? # after the //,
\* one past the end when there is none
NetlocEnd(url) ==
    LetIn({k \in 3..Len(url) : url[k] \in {"/", "?", "#"}}, LAMBDA ds :
        IF ds = {} THEN Len(url) + 1 ELSE CHOOSE d \in ds : \A e \in ds : d <= e)

\* the scheme of url: the position of its colon, 0 when url has no scheme
SchemeEnd(url) ==
    LetIn(Find(url, ":", 1), LAMBDA i :
        IF /\ i > 1
           /\ IsAlpha(url[1])
           /\ \A k \in 1..(i-1) : url[k] \in scheme_chars
        THEN i ELSE 0)

\* urlsplit: scheme, netloc, then fragment and query cut off the rest.
\* error is the ValueError("Invalid IPv6 URL") of a netloc with one bracket
\* and not the other.
urlsplit(url) ==
    LetIn(SchemeEnd(url), LAMBDA i :
    LetIn(IF i > 0 THEN SubSeq(url, i + 1, Len(url)) ELSE url, LAMBDA u1 :
    LetIn(Len(u1) >= 2 /\ u1[1] = "/" /\ u1[2] = "/", LAMBDA hasNetloc :
    LetIn(NetlocEnd(u1), LAMBDA d :
    LetIn(IF hasNetloc THEN SubSeq(u1, 3, d - 1) ELSE <<>>, LAMBDA netloc :
    LetIn(IF hasNetloc THEN SubSeq(u1, d, Len(u1)) ELSE u1, LAMBDA u2 :
    LetIn(Before(u2, "#"), LAMBDA u3 :
        [scheme |-> IF i > 0 THEN Lower(SubSeq(url, 1, i - 1)) ELSE <<>>,
         netloc |-> netloc,
         path   |-> Before(u3, "?"),
         error  |-> hasNetloc /\ (Contains(netloc, "[") # Contains(netloc, "]"))]
    )))))))

\* _splitparams(url)[0]
SplitParamsPath(url) ==
    LetIn(IF Contains(url, "/") THEN Find(url, ";", RFind(url, "/"))
                                ELSE Find(url, ";", 1), LAMBDA i :
        IF i = 0 THEN url ELSE SubSeq(url, 1, i - 1))

urlparse(url) ==
    LetIn(urlsplit(url), LAMBDA r :
        IF r.scheme \in uses_params /\ Contains(r.path, ";")
        THEN [r EXCEPT !.path = SplitParamsPath(r.path)]
        ELSE r)

---------------------------------------------------------------------------
(* get_repo_name_from_url(url): the last path segment of the URL, a        *)
(* trailing .git removed first.  raised is the ValueError of urlparse,     *)
(* which nothing catches.                                                  *)

StripGit(url) ==
    IF EndsWith(url, GIT_SUFFIX) THEN SubSeq(url, 1, Len(url) - 4) ELSE url

get_repo_name_from_url(url) ==
    LetIn(StripGit(url), LAMBDA url1 :
    LetIn(urlparse(url1), LAMBDA parsed :
    LetIn(Strip(parsed.path, "/"), LAMBDA stripped :
    LetIn(Split(stripped, "/"), LAMBDA path_parts :
        [raised |-> parsed.error,
         name   |-> IF path_parts # <<>> THEN path_parts[Len(path_parts)]
                                         ELSE UNKNOWN]))))

---------------------------------------------------------------------------
(* pathlib: Path(output_dir) / repo_name and Path.exists().                *)

output_dir == <<PACKAGES>>

\* Path(dir) / name: an empty segment and "." are dropped by pathlib
PathJoin(dir, name) ==
    IF name = <<>> \/ name = <<".">> THEN dir ELSE Append(dir, name)

\* the directory a path names, ".." resolved by the operating system
RECURSIVE ResolvePath(_)
ResolvePath(p) ==
    IF p = <<>> THEN <<>>
    ELSE LET r == ResolvePath(SubSeq(p, 1, Len(p) - 1))
         IN  IF p[Len(p)] = <<".", ".">>
             THEN (IF r = <<>> THEN <<>> ELSE SubSeq(r, 1, Len(r) - 1))
             ELSE Append(r, p[Len(p)])

\* Path.exists(): the current directory always exists
Exists(p, fs) == ResolvePath(p) = <<>> \/ ResolvePath(p) \in fs

---------------------------------------------------------------------------
(* The external commands.  A command is the program and its fixed options  *)
(* (op) and the interpolated arguments (args).                             *)

git_clone(url, repo_name) == [op |-> "git clone --progress", args |-> <<url, repo_name>>]
git_fetch_all == [op |-> "git fetch --all --progress", args |-> <<>>]
git_fetch_tags == [op |-> "git fetch --tags", args |-> <<>>]
git_checkout(ref) == [op |-> "git checkout", args |-> <<ref>>]
git_describe == [op |-> "git describe --tags --exact-match", args |-> <<>>]
git_rev_parse == [op |-> "git rev-parse HEAD", args |-> <<>>]

\* the four refs of the fallback sequence, in the order of the code
ref_plain(version) == version
ref_tags(version) == TAGS_PREFIX \o version
\* v_version with the prefix forgotten
v_version_unprefixed(version) == version
v_version(version) == V_PREFIX \o version
ref_tags_v(version) == TAGS_PREFIX \o v_version(version)

\* run_command(command, cwd, check, show_output), given the exit status the
\* child process ends with: what the caller receives.  With show_output the
\* Popen object is returned and check is not looked at; otherwise
\* subprocess.run raises CalledProcessError on a nonzero status when check
\* is set, which is caught and returned.  Every one of them has .returncode.
run_command(status, check, show_output) ==
    IF show_output
    THEN [returncode |-> status, kind |-> "Popen"]
    ELSE IF check /\ status # 0
         THEN [returncode |-> status, kind |-> "CalledProcessError"]
         ELSE [returncode |-> status, kind |-> "CompletedProcess"]

---------------------------------------------------------------------------
(* git's resolution of the argument of `git checkout <name>`, for the runs *)
(* in which the refs of the working copy are known (SpecGit).  refs is the *)
(* set of full ref names (refs/tags/v1.2.0, refs/heads/main, ...).         *)

REFS == <<"r","e","f","s","/">>
REFS_TAGS == <<"r","e","f","s","/","t","a","g","s","/">>
REFS_HEADS == <<"r","e","f","s","/","h","e","a","d","s","/">>
REFS_REMOTES == <<"r","e","f","s","/","r","e","m","o","t","e","s","/">>
REFS_REMOTES_ORIGIN == <<"r","e","f","s","/","r","e","m","o","t","e","s","/","o","r","i","g","i","n","/">>

\* the rules git tries: <name>, refs/<name>, refs/tags/<name>,
\* refs/heads/<name>, refs/remotes/<name>
RefResolves(refs, name) ==
    \E prefix \in {<<>>, REFS, REFS_TAGS, REFS_HEADS, REFS_REMOTES} :
        (prefix \o name) \in refs

\* git checkout <name>: a ref that resolves is checked out; a name that is
\* only a branch of the remote gets a local branch; anything else is taken
\* as a path, which matches nothing.
git_checkout_status(refs, name) ==
    IF RefResolves(refs, name) \/ (REFS_REMOTES_ORIGIN \o name) \in refs
    THEN 0 ELSE 1

\* The exit statuses a command can end with.  Nothing is known of the
\* network, the remote or the working copy unless repo says so.
ReturnCodes == {0, 1}

ExitStatuses(command) ==
    IF repo.known /\ command.op = "git checkout"
    THEN {git_checkout_status(repo.refs, command.args[1])}
    ELSE ReturnCodes

---------------------------------------------------------------------------
(* collection.json.  A package entry is a JSON object; has_url and         *)
(* has_versions say whether the key is there, has_version likewise for a   *)
(* version descriptor.                                                     *)

Descriptor(version) == [has_version |-> TRUE, version |-> version]
NoVersionDescriptor == [has_version |-> FALSE, version |-> <<>>]
Package(url, versions) ==
    [has_url |-> TRUE, url |-> url, has_versions |-> TRUE, versions |-> versions]

P_FOO == Package(U_FOO_GIT, <<Descriptor(V_120)>>)
P_FOO_OTHER == Package(U_FOO_OTHER, <<Descriptor(V_20)>>)
P_BAR == Package(U_BAR, <<Descriptor(V_20), Descriptor(V_120)>>)
P_ROOT == Package(U_ROOT, <<Descriptor(V_120)>>)
P_BAD_URL == Package(U_BAD, <<Descriptor(V_120)>>)
P_NO_URL == [has_url |-> FALSE, url |-> <<>>, has_versions |-> TRUE,
             versions |-> <<Descriptor(V_120)>>]
P_EMPTY_URL == Package(<<>>, <<Descriptor(V_120)>>)
P_NO_VERSIONS == [has_url |-> TRUE, url |-> U_FOO_GIT, has_versions |-> FALSE,
                  versions |-> <<>>]
P_EMPTY_VERSIONS == Package(U_FOO_GIT, <<>>)
P_NO_VERSION == Package(U_FOO_GIT, <<NoVersionDescriptor, Descriptor(V_120)>>)
P_EMPTY_VERSION == Package(U_BAR, <<Descriptor(<<>>)>>)

PackagePool ==
    {P_FOO, P_FOO_OTHER, P_BAR, P_ROOT, P_BAD_URL, P_NO_URL, P_EMPTY_URL,
     P_NO_VERSIONS, P_EMPTY_VERSIONS, P_NO_VERSION, P_EMPTY_VERSION}

RECURSIVE SeqsUpTo(_, _)
SeqsUpTo(S, n) ==
    IF n = 0 THEN {<<>>}
    ELSE LET shorter == SeqsUpTo(S, n - 1)
         IN  shorter \cup {Append(q, x) : q \in {r \in shorter : Len(r) = n - 1}, x \in S}

\* what the file can be: absent, not JSON, unreadable, or a JSON object with
\* or without the packages key
Collections ==
    {[state |-> k, has_packages |-> FALSE, packages |-> <<>>] :
        k \in {"missing", "invalid_json", "unreadable", "ok"}}
    \cup {[state |-> "ok", has_packages |-> TRUE, packages |-> m] :
            m \in SeqsUpTo(PackagePool, MaxPackages)}

\* package.get("url"), package.get("versions", []) and their truth values
not_url(package) == ~package.has_url \/ package.url = <<>>
versions_of(package) == IF package.has_versions THEN package.versions ELSE <<>>
not_versions(package) == versions_of(package) = <<>>
\* version_info taking the last descriptor
version_info_last(package) == versions_of(package)[Len(versions_of(package))]
version_info(package) == versions_of(package)[1]
\* not_version with only a missing key counted, not an empty label
not_version_missing_only(package) == ~version_info(package).has_version
not_version(package) ==
    ~version_info(package).has_version \/ version_info(package).version = <<>>

---------------------------------------------------------------------------
(* The state of one run.                                                   *)

\* the directories that may be there before the run
InitialFs ==
    {{}, {output_dir}, {output_dir, PathJoin(output_dir, N_FOO)}}

NoPath == <<>>

InitRun(fs) ==
    [pc         |-> "main",
     packages   |-> <<>>,
     i          |-> 0,
     successful |-> 0,
     failed     |-> 0,
     url        |-> <<>>,
     version    |-> <<>>,
     repo_name  |-> <<>>,
     repo_path  |-> NoPath,
     fs         |-> fs,
     cmds       |-> <<>>,
     done       |-> <<>>,
     summary    |-> FALSE,
     traceback  |-> FALSE,
     exit_code  |-> -1]

---------------------------------------------------------------------------
(* The steps of a run, as functions of the run and of the exit status of   *)
(* the command the step issues.                                            *)

Last(q) == q[Len(q)]

\* sys.exit(code)
sys_exit(s, code) == [s EXCEPT !.pc = "exit", !.exit_code = code]

\* an exception nothing catches: the interpreter prints the traceback and
\* ends with status 1
uncaught(s) == [s EXCEPT !.pc = "exit", !.exit_code = 1, !.traceback = TRUE]

\* main_start with the test of an empty packages list left out
main_start_no_empty_check(s, coll) ==
    IF coll.state # "ok" THEN sys_exit(s, 1)
    ELSE LET packages == IF coll.has_packages THEN coll.packages ELSE <<>>
         IN  [s EXCEPT !.pc = "loop", !.packages = packages, !.i = 1,
                       !.successful = 0, !.failed = 0]

\* main(), from its start to the head of the loop
main_start(s, coll) ==
    IF coll.state # "ok" THEN sys_exit(s, 1)
    ELSE LET packages == IF coll.has_packages THEN coll.packages ELSE <<>>
         IN  IF packages = <<>> THEN sys_exit(s, 1)
             ELSE [s EXCEPT !.pc = "loop", !.packages = packages, !.i = 1,
                            !.successful = 0, !.failed = 0]

\* count with successful going up for every entry
count_both(s, ok, why) ==
    [s EXCEPT !.pc = "loop",
              !.i = @ + 1,
              !.successful = @ + 1,
              !.failed = IF ok THEN @ ELSE @ + 1,
              !.done = Append(@, [ok |-> ok, why |-> why, repo_path |-> s.repo_path]),
              !.url = <<>>, !.version = <<>>, !.repo_name = <<>>,
              !.repo_path = NoPath]

\* the end of the loop body: one of the two counters goes up by one and the
\* loop moves to the next entry.  done is the history of the outcomes.
count(s, ok, why) ==
    [s EXCEPT !.pc = "loop",
              !.i = @ + 1,
              !.successful = IF ok THEN @ + 1 ELSE @,
              !.failed = IF ok THEN @ ELSE @ + 1,
              !.done = Append(@, [ok |-> ok, why |-> why, repo_path |-> s.repo_path]),
              !.url = <<>>, !.version = <<>>, !.repo_name = <<>>,
              !.repo_path = NoPath]

\* failed += 1; continue
skip(s, why) == count([s EXCEPT !.cmds = <<>>], FALSE, why)

\* run_command(...) called: the entry it is called for, the command, where
\* it runs and what came back
issue(s, command, cwd, check, show_output, status) ==
    [s EXCEPT !.cmds = Append(@, [pkg |-> s.i, command |-> command, cwd |-> cwd,
                                  result |-> run_command(status, check, show_output)])]

returncode(s) == Last(s.cmds).result.returncode

\* clone_and_checkout_package with the test of repo_path.exists() left out:
\* a clone whatever is there
clone_and_checkout_package_always_clone(s) ==
    LET package == s.packages[s.i]
        fs1 == s.fs \cup {output_dir}
        r == get_repo_name_from_url(package.url)
        path == PathJoin(output_dir, r.name)
        s1 == [s EXCEPT !.fs = fs1, !.cmds = <<>>, !.url = package.url,
                        !.version = version_info(package).version]
    IN  IF r.raised THEN uncaught(s1)
        ELSE [s1 EXCEPT !.repo_name = r.name, !.repo_path = path, !.pc = "clone"]

\* clone_and_checkout_package, up to the test of repo_path.exists()
clone_and_checkout_package(s) ==
    LET package == s.packages[s.i]
        fs1 == s.fs \cup {output_dir}
        r == get_repo_name_from_url(package.url)
        path == PathJoin(output_dir, r.name)
        s1 == [s EXCEPT !.fs = fs1, !.cmds = <<>>, !.url = package.url,
                        !.version = version_info(package).version]
    IN  IF r.raised THEN uncaught(s1)
        ELSE [s1 EXCEPT !.repo_name = r.name, !.repo_path = path,
                        !.pc = IF Exists(path, fs1) THEN "fetch_all" ELSE "clone"]

\* fetch_all with a failing update ending the package
fetch_all_fatal(s, status) ==
    LET s1 == issue(s, git_fetch_all, s.repo_path, FALSE, TRUE, status)
    IN  IF returncode(s1) # 0 THEN count(s1, FALSE, "FetchFailed")
        ELSE [s1 EXCEPT !.pc = "fetch_tags"]

fetch_all(s, status) ==
    LET s1 == issue(s, git_fetch_all, s.repo_path, FALSE, TRUE, status)
    IN  [s1 EXCEPT !.pc = "fetch_tags"]

\* clone with a failed clone tried once more
clone_retry_once(s, status) ==
    LET s1 == issue(s, git_clone(s.url, s.repo_name), output_dir, TRUE, TRUE, status)
    IN  IF returncode(s1) # 0
        THEN (IF Len(s1.cmds) < 2 THEN s1 ELSE count(s1, FALSE, "CloneFailed"))
        ELSE [s1 EXCEPT !.fs = @ \cup {ResolvePath(s.repo_path)}, !.pc = "fetch_tags"]

\* a clone that succeeds leaves the directory repo_name in output_dir
clone(s, status) ==
    LET s1 == issue(s, git_clone(s.url, s.repo_name), output_dir, TRUE, TRUE, status)
    IN  IF returncode(s1) # 0 THEN count(s1, FALSE, "CloneFailed")
        ELSE [s1 EXCEPT !.fs = @ \cup {ResolvePath(s.repo_path)}, !.pc = "fetch_tags"]

\* fetch_tags with a failing fetch ending the package
fetch_tags_fatal(s, status) ==
    LET s1 == issue(s, git_fetch_tags, s.repo_path, FALSE, TRUE, status)
    IN  IF returncode(s1) # 0 THEN count(s1, FALSE, "FetchFailed")
        ELSE [s1 EXCEPT !.pc = "checkout"]

fetch_tags(s, status) ==
    LET s1 == issue(s, git_fetch_tags, s.repo_path, FALSE, TRUE, status)
    IN  [s1 EXCEPT !.pc = "checkout"]

checkout(s, status) ==
    LET s1 == issue(s, git_checkout(ref_plain(s.version)), s.repo_path, TRUE, TRUE, status)
    IN  IF returncode(s1) # 0 THEN [s1 EXCEPT !.pc = "checkout_tags"]
        ELSE [s1 EXCEPT !.pc = "describe"]

\* checkout_tags with the v-prefixed label tried second
checkout_tags_swapped(s, status) ==
    LET s1 == issue(s, git_checkout(V_PREFIX \o s.version), s.repo_path, TRUE, TRUE, status)
    IN  IF returncode(s1) # 0 THEN [s1 EXCEPT !.pc = "checkout_v"]
        ELSE [s1 EXCEPT !.pc = "describe"]

checkout_tags(s, status) ==
    LET s1 == issue(s, git_checkout(ref_tags(s.version)), s.repo_path, TRUE, TRUE, status)
    IN  IF returncode(s1) # 0 THEN [s1 EXCEPT !.pc = "checkout_v"]
        ELSE [s1 EXCEPT !.pc = "describe"]

checkout_v(s, status) ==
    LET s1 == issue(s, git_checkout(v_version(s.version)), s.repo_path, TRUE, TRUE, status)
    IN  IF returncode(s1) # 0 THEN [s1 EXCEPT !.pc = "checkout_tags_v"]
        ELSE [s1 EXCEPT !.pc = "describe"]

\* checkout_tags_v with a failed last attempt let through
checkout_tags_v_forgiving(s, status) ==
    LET s1 == issue(s, git_checkout(ref_tags_v(s.version)), s.repo_path, TRUE, TRUE, status)
    IN  [s1 EXCEPT !.pc = "describe"]

checkout_tags_v(s, status) ==
    LET s1 == issue(s, git_checkout(ref_tags_v(s.version)), s.repo_path, TRUE, TRUE, status)
    IN  IF returncode(s1) # 0 THEN count(s1, FALSE, "CheckoutFailed")
        ELSE [s1 EXCEPT !.pc = "describe"]

describe(s, status) ==
    LET s1 == issue(s, git_describe, s.repo_path, FALSE, FALSE, status)
    IN  IF returncode(s1) = 0 THEN count(s1, TRUE, "tag")
        ELSE [s1 EXCEPT !.pc = "rev_parse"]

\* rev_parse with a failing lookup failing the package
rev_parse_fatal(s, status) ==
    LET s1 == issue(s, git_rev_parse, s.repo_path, FALSE, FALSE, status)
    IN  IF returncode(s1) = 0 THEN count(s1, TRUE, "commit")
        ELSE count(s1, FALSE, "unverified")

rev_parse(s, status) ==
    LET s1 == issue(s, git_rev_parse, s.repo_path, FALSE, FALSE, status)
    IN  IF returncode(s1) = 0 THEN count(s1, TRUE, "commit")
        ELSE count(s1, TRUE, "unverified")

\* summary with the test of failed left out
summary_always_zero(s) == sys_exit([s EXCEPT !.summary = TRUE], 0)

\* after the loop: the summary, then the exit status
summary(s) ==
    LET s1 == [s EXCEPT !.summary = TRUE]
    IN  IF s.failed > 0 THEN sys_exit(s1, 1) ELSE sys_exit(s1, 0)

---------------------------------------------------------------------------
(* The actions: one per step of main() and of clone_and_checkout_package.  *)

InLoop(s) == s.pc = "loop" /\ s.i <= Len(s.packages)
package_of(s) == s.packages[s.i]

Main ==
    /\ st.pc = "main"
    /\ st' = main_start(st, collection)
    /\ UNCHANGED <<collection, repo, alt, flip>>

NoUrl ==
    /\ InLoop(st)
    /\ not_url(package_of(st))
    /\ st' = skip(st, "MissingURL")
    /\ UNCHANGED <<collection, repo, alt, flip>>

NoVersions ==
    /\ InLoop(st)
    /\ ~not_url(package_of(st))
    /\ not_versions(package_of(st))
    /\ st' = skip(st, "MissingVersions")
    /\ UNCHANGED <<collection, repo, alt, flip>>

NoVersion ==
    /\ InLoop(st)
    /\ ~not_url(package_of(st))
    /\ ~not_versions(package_of(st))
    /\ not_version(package_of(st))
    /\ st' = skip(st, "MissingVersion")
    /\ UNCHANGED <<collection, repo, alt, flip>>

CallCloneAndCheckout ==
    /\ InLoop(st)
    /\ ~not_url(package_of(st))
    /\ ~not_versions(package_of(st))
    /\ ~not_version(package_of(st))
    /\ st' = clone_and_checkout_package(st)
    /\ UNCHANGED <<collection, repo, alt, flip>>

FetchAll ==
    /\ st.pc = "fetch_all"
    /\ \E status \in ExitStatuses(git_fetch_all) : st' = fetch_all(st, status)
    /\ UNCHANGED <<collection, repo, alt, flip>>

Clone ==
    /\ st.pc = "clone"
    /\ \E status \in ExitStatuses(git_clone(st.url, st.repo_name)) :
          st' = clone(st, status)
    /\ UNCHANGED <<collection, repo, alt, flip>>

FetchTags ==
    /\ st.pc = "fetch_tags"
    /\ \E status \in ExitStatuses(git_fetch_tags) : st' = fetch_tags(st, status)
    /\ UNCHANGED <<collection, repo, alt, flip>>

Checkout ==
    /\ st.pc = "checkout"
    /\ \E status \in ExitStatuses(git_checkout(ref_plain(st.version))) :
          st' = checkout(st, status)
    /\ UNCHANGED <<collection, repo, alt, flip>>

CheckoutTags ==
    /\ st.pc = "checkout_tags"
    /\ \E status \in ExitStatuses(git_checkout(ref_tags(st.version))) :
          st' = checkout_tags(st, status)
    /\ UNCHANGED <<collection, repo, alt, flip>>

CheckoutV ==
    /\ st.pc = "checkout_v"
    /\ \E status \in ExitStatuses(git_checkout(v_version(st.version))) :
          st' = checkout_v(st, status)
    /\ UNCHANGED <<collection, repo, alt, flip>>

CheckoutTagsV ==
    /\ st.pc = "checkout_tags_v"
    /\ \E status \in ExitStatuses(git_checkout(ref_tags_v(st.version))) :
          st' = checkout_tags_v(st, status)
    /\ UNCHANGED <<collection, repo, alt, flip>>

Describe ==
    /\ st.pc = "describe"
    /\ \E status \in ExitStatuses(git_describe) : st' = describe(st, status)
    /\ UNCHANGED <<collection, repo, alt, flip>>

RevParse ==
    /\ st.pc = "rev_parse"
    /\ \E status \in ExitStatuses(git_rev_parse) : st' = rev_parse(st, status)
    /\ UNCHANGED <<collection, repo, alt, flip>>

Summary ==
    /\ st.pc = "loop"
    /\ st.i > Len(st.packages)
    /\ st' = summary(st)
    /\ UNCHANGED <<collection, repo, alt, flip>>

Next ==
    \/ Main
    \/ NoUrl
    \/ NoVersions
    \/ NoVersion
    \/ CallCloneAndCheckout
    \/ FetchAll
    \/ Clone
    \/ FetchTags
    \/ Checkout
    \/ CheckoutTags
    \/ CheckoutV
    \/ CheckoutTagsV
    \/ Describe
    \/ RevParse
    \/ Summary

\* nothing is known of the repositories: every command may end either way
Init ==
    /\ collection \in Collections
    /\ repo = [known |-> FALSE, refs |-> {}]
    /\ \E fs \in InitialFs : st = InitRun(fs) /\ alt = InitRun(fs)
    /\ flip = 0

Spec == Init /\ [][Next]_vars

---------------------------------------------------------------------------
(* SpecGit: the runs over manifests of at most one package in which the    *)
(* refs of the working copy are known, so that every checkout ends the way *)
(* git resolves its argument.                                              *)

R_TAG_V120 == REFS_TAGS \o V_PREFIX \o V_120
R_TAG_120 == REFS_TAGS \o V_120
R_HEAD_MAIN == REFS_HEADS \o <<"m","a","i","n">>
R_ORIGIN_120 == REFS_REMOTES_ORIGIN \o V_120
R_TAG_20 == REFS_TAGS \o V_20

RefSets ==
    {{R_HEAD_MAIN},
     {R_HEAD_MAIN, R_TAG_V120},
     {R_HEAD_MAIN, R_TAG_V120, R_TAG_20},
     {R_HEAD_MAIN, R_TAG_120},
     {R_HEAD_MAIN, R_TAG_V120, R_TAG_120},
     {R_HEAD_MAIN, R_TAG_V120, R_ORIGIN_120}}

InitGit ==
    /\ collection \in {c \in Collections : Len(c.packages) <= 1}
    /\ \E refs \in RefSets : repo = [known |-> TRUE, refs |-> refs]
    /\ \E fs \in InitialFs : st = InitRun(fs) /\ alt = InitRun(fs)
    /\ flip = 0

SpecGit == InitGit /\ [][Next]_vars

---------------------------------------------------------------------------
(* SpecPair: two runs over the same collection.json and the same           *)
(* directories.  Every command the two issue at the same place ends the    *)
(* same way in both, but for one clone, which fails in st and succeeds in  *)
(* alt.  The runs advance entry by entry: where they part, the one that is *)
(* behind moves alone until both stand at the head of the loop again.      *)

\* the command the run is about to issue, if it is about to issue one
command_at(s) ==
    CASE s.pc = "fetch_all" -> git_fetch_all
      [] s.pc = "clone" -> git_clone(s.url, s.repo_name)
      [] s.pc = "fetch_tags" -> git_fetch_tags
      [] s.pc = "checkout" -> git_checkout(ref_plain(s.version))
      [] s.pc = "checkout_tags" -> git_checkout(ref_tags(s.version))
      [] s.pc = "checkout_v" -> git_checkout(v_version(s.version))
      [] s.pc = "checkout_tags_v" -> git_checkout(ref_tags_v(s.version))
      [] s.pc = "describe" -> git_describe
      [] s.pc = "rev_parse" -> git_rev_parse
      [] OTHER -> [op |-> "none", args |-> <<>>]

StatusesAt(s) ==
    IF command_at(s).op = "none" THEN {0} ELSE ExitStatuses(command_at(s))

\* the loop body up to the call, and the end of the loop
loop_step(s) ==
    IF s.i > Len(s.packages) THEN summary(s)
    ELSE IF not_url(package_of(s)) THEN skip(s, "MissingURL")
    ELSE IF not_versions(package_of(s)) THEN skip(s, "MissingVersions")
    ELSE IF not_version(package_of(s)) THEN skip(s, "MissingVersion")
    ELSE clone_and_checkout_package(s)

\* the next step of a run that has not ended
step(s, status) ==
    CASE s.pc = "main" -> main_start(s, collection)
      [] s.pc = "loop" -> loop_step(s)
      [] s.pc = "fetch_all" -> fetch_all(s, status)
      [] s.pc = "clone" -> clone(s, status)
      [] s.pc = "fetch_tags" -> fetch_tags(s, status)
      [] s.pc = "checkout" -> checkout(s, status)
      [] s.pc = "checkout_tags" -> checkout_tags(s, status)
      [] s.pc = "checkout_v" -> checkout_v(s, status)
      [] s.pc = "checkout_tags_v" -> checkout_tags_v(s, status)
      [] s.pc = "describe" -> describe(s, status)
      [] s.pc = "rev_parse" -> rev_parse(s, status)

Together == st.pc = alt.pc /\ st.i = alt.i /\ st.pc # "exit"

StTurn ==
    /\ st.pc # "exit"
    /\ \/ alt.pc = "exit"
       \/ st.i < alt.i
       \/ st.i = alt.i /\ st.pc # alt.pc

AltTurn ==
    /\ alt.pc # "exit"
    /\ ~StTurn
    /\ st.pc = "exit" \/ alt.i < st.i

PairBoth ==
    /\ Together
    /\ \E status \in StatusesAt(st) :
          /\ st' = step(st, status)
          /\ alt' = step(alt, status)
    /\ UNCHANGED <<collection, repo, flip>>

PairFlip ==
    /\ Together
    /\ st.pc = "clone"
    /\ flip = 0
    /\ st' = clone(st, 1)
    /\ alt' = clone(alt, 0)
    /\ flip' = st.i
    /\ UNCHANGED <<collection, repo>>

PairSt ==
    /\ StTurn
    /\ \E status \in StatusesAt(st) : st' = step(st, status)
    /\ UNCHANGED <<collection, repo, alt, flip>>

PairAlt ==
    /\ AltTurn
    /\ \E status \in StatusesAt(alt) : alt' = step(alt, status)
    /\ UNCHANGED <<collection, repo, st, flip>>

NextPair ==
    \/ PairBoth
    \/ PairFlip
    \/ PairSt
    \/ PairAlt

SpecPair == Init /\ [][NextPair]_vars

---------------------------------------------------------------------------
(* SpecFirst: two runs side by side over the same directories, st over     *)
(* collection.json and alt over the same file with every versions list cut *)
(* down to its first descriptor.  A command the two issue at the same      *)
(* place ends the same way in both.                                        *)

FirstOnly(coll) ==
    [state |-> coll.state,
     has_packages |-> coll.has_packages,
     packages |-> [k \in 1..Len(coll.packages) |->
                     [has_url |-> coll.packages[k].has_url,
                      url |-> coll.packages[k].url,
                      has_versions |-> coll.packages[k].has_versions,
                      versions |-> IF Len(coll.packages[k].versions) > 1
                                   THEN <<coll.packages[k].versions[1]>>
                                   ELSE coll.packages[k].versions]]]

FirstMain ==
    /\ st.pc = "main"
    /\ alt.pc = "main"
    /\ st' = main_start(st, collection)
    /\ alt' = main_start(alt, FirstOnly(collection))
    /\ UNCHANGED <<collection, repo, flip>>

FirstStep ==
    /\ Together
    /\ st.pc # "main"
    /\ \E status \in StatusesAt(st) :
          /\ st' = step(st, status)
          /\ alt' = step(alt, status)
    /\ UNCHANGED <<collection, repo, flip>>

NextFirst ==
    \/ FirstMain
    \/ FirstStep

SpecFirst == Init /\ [][NextFirst]_vars

---------------------------------------------------------------------------
(* SpecTwice: the program run twice in succession over the same            *)
(* collection.json, the second run (alt) starting from the directories the *)
(* first (st) left.  The remotes do not change, and every command ends the *)
(* way its arguments, the remotes and the working copy it runs in          *)
(* determine: repo.remotes gives, for each URL, whether the remote answers *)
(* and the refs a clone of it has; repo.origin gives, for each directory,  *)
(* the URL it was cloned from, if it is a working copy.                    *)

NoRemote == <<>>
TwiceUrls == {U_FOO_GIT, U_FOO_OTHER, U_BAR}
TwicePaths == {output_dir, PathJoin(output_dir, N_FOO), PathJoin(output_dir, N_BAR)}

RemoteStates ==
    {[avail |-> FALSE, refs |-> {}],
     [avail |-> TRUE, refs |-> {R_HEAD_MAIN}],
     [avail |-> TRUE, refs |-> {R_HEAD_MAIN, R_TAG_V120, R_TAG_20}]}

\* the remote of the working copy the run stands in
origin_of(s) ==
    IF ResolvePath(s.repo_path) \in TwicePaths
    THEN repo.origin[ResolvePath(s.repo_path)]
    ELSE NoRemote

\* the name a checkout resolved, without tags/ in front
tag_name(ref) ==
    IF Len(ref) >= Len(TAGS_PREFIX) /\ SubSeq(ref, 1, Len(TAGS_PREFIX)) = TAGS_PREFIX
    THEN SubSeq(ref, Len(TAGS_PREFIX) + 1, Len(ref))
    ELSE ref

\* the exit status of the command the run is about to issue
DeterministicStatus(s) ==
    LET command == command_at(s)
        url == origin_of(s)
    IN  CASE command.op = "none" -> 0
          [] command.op = "git clone --progress" ->
                IF s.url \in TwiceUrls /\ repo.remotes[s.url].avail THEN 0 ELSE 1
          [] command.op \in {"git fetch --all --progress", "git fetch --tags"} ->
                IF url # NoRemote /\ repo.remotes[url].avail THEN 0 ELSE 1
          [] command.op = "git checkout" ->
                IF url # NoRemote
                THEN git_checkout_status(repo.remotes[url].refs, command.args[1])
                ELSE 1
          [] command.op = "git describe --tags --exact-match" ->
                IF url # NoRemote
                   /\ (REFS_TAGS \o tag_name(Last(s.cmds).command.args[1]))
                          \in repo.remotes[url].refs
                THEN 0 ELSE 1
          [] OTHER -> IF url # NoRemote THEN 0 ELSE 1

\* the working copies after the step: a clone that succeeded made one
origin_after(s, status) ==
    IF s.pc = "clone" /\ status = 0 /\ ResolvePath(s.repo_path) \in TwicePaths
    THEN [repo EXCEPT !.origin[ResolvePath(s.repo_path)] = s.url]
    ELSE repo

TwiceFirst ==
    /\ flip = 0
    /\ st.pc # "exit"
    /\ st' = step(st, DeterministicStatus(st))
    /\ repo' = origin_after(st, DeterministicStatus(st))
    /\ UNCHANGED <<collection, alt, flip>>

TwiceAgain ==
    /\ flip = 0
    /\ st.pc = "exit"
    /\ alt' = InitRun(st.fs)
    /\ flip' = 1
    /\ UNCHANGED <<collection, repo, st>>

TwiceSecond ==
    /\ flip = 1
    /\ alt.pc # "exit"
    /\ alt' = step(alt, DeterministicStatus(alt))
    /\ repo' = origin_after(alt, DeterministicStatus(alt))
    /\ UNCHANGED <<collection, st, flip>>

NextTwice ==
    \/ TwiceFirst
    \/ TwiceAgain
    \/ TwiceSecond

\* a packages/foo that is there before the first run is a clone of
\* https://example.com/org/foo.git
InitTwice ==
    /\ collection \in Collections
    /\ \E fs \in InitialFs, remotes \in [TwiceUrls -> RemoteStates] :
          /\ st = InitRun(fs)
          /\ alt = InitRun(fs)
          /\ repo = [known |-> FALSE, refs |-> {}, remotes |-> remotes,
                     origin |-> [p \in TwicePaths |->
                                   IF p = PathJoin(output_dir, N_FOO) /\ p \in fs
                                   THEN U_FOO_GIT ELSE NoRemote]]
    /\ flip = 0

SpecTwice == InitTwice /\ [][NextTwice]_vars

---------------------------------------------------------------------------
(* The claims.  They read the input (collection, repo), the history of the *)
(* run (cmds: the commands of the entry in hand or just ended; done: the   *)
(* outcomes so far) and the program's own variables.                       *)

OP_CLONE == "git clone --progress"
OP_FETCH_ALL == "git fetch --all --progress"
OP_FETCH_TAGS == "git fetch --tags"
OP_CHECKOUT == "git checkout"
OP_DESCRIBE == "git describe --tags --exact-match"
OP_REV_PARSE == "git rev-parse HEAD"

\* the checkout commands among q, in the order they were issued
Checkouts(q) == SelectSeq(q, LAMBDA c : c.command.op = OP_CHECKOUT)

\* the label of entry k of the file: the version of its first descriptor
LabelOf(k) == collection.packages[k].versions[1].version

\* the four variants of label L, in the order the specification gives
ExpectedRefs(L) ==
    <<L,
      <<"t","a","g","s","/">> \o L,
      <<"v">> \o L,
      <<"t","a","g","s","/","v">> \o L>>

\* the run stands between two entries, or has ended
BetweenEntries == st.pc \in {"loop", "exit"}

Loaded ==
    /\ collection.state = "ok"
    /\ collection.has_packages
    /\ Len(collection.packages) >= 1

\* C1: for a package that reaches version resolution with label L the
\* checkout attempts are L, tags/L, vL, tags/vL in this order; an attempt is
\* issued only after every earlier one ended nonzero, none is issued after
\* one that ended zero, and a package left with a failed last attempt has
\* made all four.
C1_CheckoutOrder ==
    LET co == Checkouts(st.cmds)
    IN  co # <<>> =>
          /\ Len(co) <= 4
          /\ \A k \in 1..Len(co) :
                co[k].command.args = <<ExpectedRefs(LabelOf(co[k].pkg))[k]>>
          /\ \A k \in 1..(Len(co) - 1) : co[k].result.returncode # 0
          /\ (BetweenEntries /\ co[Len(co)].result.returncode # 0) => Len(co) = 4

\* C1 witness: the first three attempts failed and the fourth succeeded
C1_Witness ==
    LET co == Checkouts(st.cmds)
    IN  /\ Len(co) = 4
        /\ co[3].result.returncode # 0
        /\ co[4].result.returncode = 0
        /\ co[4].command.args = <<<<"t","a","g","s","/","v","1",".","2",".","0">>>>

\* the scenario of C2: the one package https://example.com/org/foo.git at
\* 1.2.0, a repository that has the tag v1.2.0 and no ref named 1.2.0
C2_Scenario ==
    /\ Loaded
    /\ collection.packages =
          <<[has_url |-> TRUE, url |-> U_FOO_GIT, has_versions |-> TRUE,
             versions |-> <<[has_version |-> TRUE, version |-> V_120]>>]>>
    /\ repo.known
    /\ (<<"r","e","f","s","/","t","a","g","s","/","v","1",".","2",".","0">>) \in repo.refs
    /\ \A r \in repo.refs : ~EndsWith(r, <<"/","1",".","2",".","0">>)

\* the package of the scenario has been through version resolution
C2_Resolved ==
    /\ BetweenEntries
    /\ Len(st.done) = 1
    /\ Checkouts(st.cmds) # <<>>

\* C2 as amended: in the scenario, once the package has been through
\* version resolution, the attempts 1.2.0 and tags/1.2.0 have failed, the
\* third attempt v1.2.0 has succeeded, no fourth was issued, and the
\* package is counted successful.
C2_ThirdAttemptSucceeds ==
    (C2_Scenario /\ C2_Resolved) =>
        LET co == Checkouts(st.cmds)
        IN  /\ Len(co) = 3
            /\ [k \in 1..3 |-> co[k].command.args[1]] =
                 <<V_120, <<"t","a","g","s","/">> \o V_120, <<"v">> \o V_120>>
            /\ co[1].result.returncode # 0
            /\ co[2].result.returncode # 0
            /\ co[3].result.returncode = 0
            /\ st.done[1].ok
            /\ st.successful = 1 /\ st.failed = 0

\* C2 witness: the scenario, resolved by the third attempt
C2_Witness ==
    /\ C2_Scenario
    /\ C2_Resolved
    /\ Len(Checkouts(st.cmds)) = 3
    /\ st.done[1].ok

\* C2 as written: in the scenario the first three attempts fail, the fourth
\* (tags/v1.2.0) succeeds, and the package is counted successful.
C2_Original ==
    (C2_Scenario /\ C2_Resolved) =>
        LET co == Checkouts(st.cmds)
        IN  /\ Len(co) = 4
            /\ \A k \in 1..3 : co[k].result.returncode # 0
            /\ co[4].result.returncode = 0
            /\ st.done[1].ok

\* C3: when main has ended, the exit status is zero exactly when the file
\* loaded with at least one package and every entry was counted successful;
\* it is nonzero when an entry was counted failed, when the file was missing
\* or not JSON, and when it held no package.
C3_ExitStatus ==
    st.pc = "exit" =>
        /\ st.exit_code \in {0, 1}
        /\ (st.exit_code = 0) <=>
              /\ Loaded
              /\ Len(st.done) = Len(collection.packages)
              /\ \A k \in 1..Len(st.done) : st.done[k].ok
              /\ st.successful = Len(collection.packages)
        /\ \/ \E k \in 1..Len(st.done) : ~st.done[k].ok
           \/ st.failed > 0
           \/ collection.state \in {"missing", "invalid_json"}
           \/ ~collection.has_packages
           \/ collection.packages = <<>>
           => st.exit_code # 0

\* C3 witness: a run over two packages that ended with status zero
C3_Witness ==
    /\ st.pc = "exit"
    /\ st.exit_code = 0
    /\ Len(collection.packages) = 2
    /\ st.successful = 2

\* what run alt issued, without the results
Issued(q) == [k \in 1..Len(q) |-> [command |-> q[k].command, cwd |-> q[k].cwd]]

\* C4 as written (SpecPair): when the clone of entry flip fails, the entry
\* is counted failed with no command after the clone, and every other entry
\* issues the commands and gets the outcome it has in the run alt, where
\* that clone did not fail.
C4_Original ==
    flip # 0 =>
        /\ Len(st.done) >= flip =>
              /\ ~st.done[flip].ok
              /\ (Len(st.done) = flip /\ st.pc = "loop") =>
                    /\ Len(st.cmds) = 1
                    /\ st.cmds[1].command.op = OP_CLONE
        /\ (st.pc = "loop" /\ alt.pc = "loop" /\ st.i = alt.i /\ st.i - 1 # flip) =>
              /\ Issued(st.cmds) = Issued(alt.cmds)
              /\ st.done[st.i - 1].ok = alt.done[st.i - 1].ok

\* C5 as written: once the file has loaded with at least one package, every
\* entry gets one outcome and the run reaches the summary.
C5_Original ==
    (st.pc = "exit" /\ Loaded) =>
        /\ st.summary
        /\ Len(st.done) = Len(collection.packages)

\* C6 as written: two entries that reach the fetch step have distinct
\* working-copy directories.
C6_Original ==
    \A j, k \in 1..Len(st.done) :
        (j < k /\ st.done[j].repo_path # NoPath /\ st.done[k].repo_path # NoPath)
            => st.done[j].repo_path # st.done[k].repo_path

\* C7: for a file with at least one package, successful + failed is the
\* number of entries gone through so far, every entry put exactly one into
\* exactly one of the two counters, and at the summary the sum is the
\* number of packages of the file.
C7_Counters ==
    (Loaded /\ st.pc # "main") =>
        /\ (st.pc # "exit") => st.successful + st.failed = st.i - 1
        /\ st.successful = Cardinality({k \in 1..Len(st.done) : st.done[k].ok})
        /\ st.failed = Cardinality({k \in 1..Len(st.done) : ~st.done[k].ok})
        /\ st.summary => st.successful + st.failed = Len(collection.packages)

\* C7 witness: the summary of a run with one entry in each counter
C7_Witness ==
    /\ st.summary
    /\ st.successful = 1
    /\ st.failed = 1

\* an entry with no url, no versions entry, or no label in its first
\* version descriptor
C8_Invalid(p) ==
    \/ ~p.has_url
    \/ p.url = <<>>
    \/ ~p.has_versions
    \/ p.versions = <<>>
    \/ ~p.versions[1].has_version
    \/ p.versions[1].version = <<>>

\* C8: the step that takes such an entry counts it failed, issues no
\* command, leaves the directories as they are (no output directory, no
\* working copy made) and goes on with the next entry.
C8_InvalidEntrySkipped ==
    [][(/\ st.pc = "loop"
        /\ st.i <= Len(collection.packages)
        /\ C8_Invalid(collection.packages[st.i]))
       => /\ st'.failed = st.failed + 1
          /\ st'.successful = st.successful
          /\ st'.cmds = <<>>
          /\ st'.fs = st.fs
          /\ st'.pc = "loop"
          /\ st'.i = st.i + 1]_vars

\* C8 witness: the second entry, with an empty label, was counted failed
\* after a first entry with no url, and there is still no directory
C8_Witness ==
    /\ st.pc = "loop"
    /\ st.i = 3
    /\ ~collection.packages[1].has_url
    /\ collection.packages[2].versions = <<[has_version |-> TRUE, version |-> <<>>]>>
    /\ st.failed = 2
    /\ st.fs = {}

\* C9: the second command of an entry is the tags fetch, issued after the
\* clone that succeeded or the update, whatever that ended with; no
\* checkout comes before it; and whatever the tags fetch ends with, the
\* first checkout attempt follows.
C9_TagsFetchedFirst ==
    LET q == st.cmds
    IN  /\ Len(q) >= 1 => q[1].command.op \in {OP_CLONE, OP_FETCH_ALL}
        /\ (Len(q) = 1 /\ ~BetweenEntries) => st.pc = "fetch_tags"
        /\ Len(q) >= 2 =>
              /\ q[2].command.op = OP_FETCH_TAGS
              /\ q[1].command.op = OP_CLONE => q[1].result.returncode = 0
        /\ \A k \in 1..Len(q) : q[k].command.op = OP_CHECKOUT => k >= 3
        /\ Len(q) = 2 => st.pc = "checkout"
        /\ Len(q) >= 3 => q[3].command.op = OP_CHECKOUT

\* C9 witness: a working copy that was there, a tags fetch that failed, and
\* a checkout attempt after it
C9_Witness ==
    /\ Len(st.cmds) >= 3
    /\ st.cmds[1].command.op = OP_FETCH_ALL
    /\ st.cmds[2].result.returncode # 0
    /\ st.cmds[3].command.op = OP_CHECKOUT

\* C10: a package with a checkout attempt that succeeded is counted
\* successful whatever the two verification queries end with, and no
\* verification query is issued for a package whose attempts all failed.
C10_VerificationCosmetic ==
    LET q == st.cmds
        succeeded == \E k \in 1..Len(q) :
                        q[k].command.op = OP_CHECKOUT /\ q[k].result.returncode = 0
        verified == \E k \in 1..Len(q) : q[k].command.op \in {OP_DESCRIBE, OP_REV_PARSE}
    IN  /\ verified => succeeded
        /\ succeeded =>
              \/ st.pc \in {"describe", "rev_parse"}
              \/ BetweenEntries /\ st.done[Len(st.done)].ok
        /\ (Len(Checkouts(q)) = 4 /\ ~succeeded) =>
              /\ BetweenEntries
              /\ ~st.done[Len(st.done)].ok

\* C10 witness: both verification queries failed and the package is
\* counted successful
C10_Witness ==
    /\ Len(st.cmds) >= 2
    /\ st.cmds[Len(st.cmds) - 1].command.op = OP_DESCRIBE
    /\ st.cmds[Len(st.cmds) - 1].result.returncode # 0
    /\ st.cmds[Len(st.cmds)].command.op = OP_REV_PARSE
    /\ st.cmds[Len(st.cmds)].result.returncode # 0
    /\ st.pc = "loop"
    /\ st.done[Len(st.done)].ok
    /\ st.successful = Len(st.done)

\* a checkout attempt among q ended zero
SomeCheckoutSucceeded(q) ==
    \E k \in 1..Len(q) :
        q[k].command.op = OP_CHECKOUT /\ q[k].result.returncode = 0

\* C11: when the working copy is there and the update (fetch --all) fails,
\* the package goes on: the tags fetch is issued next, then the checkout
\* attempts, and the package is counted successful exactly when one of the
\* checkout attempts succeeded.
C11_UpdateFailureGoesOn ==
    LET q == st.cmds
    IN  (Len(q) >= 1 /\ q[1].command.op = OP_FETCH_ALL /\ q[1].result.returncode # 0) =>
          /\ Exists(q[1].cwd, st.fs)
          /\ Len(q) = 1 => st.pc = "fetch_tags"
          /\ Len(q) >= 2 => q[2].command.op = OP_FETCH_TAGS
          /\ Len(q) = 2 => st.pc = "checkout"
          /\ Len(q) >= 3 => q[3].command.op = OP_CHECKOUT
          /\ BetweenEntries =>
                /\ Checkouts(q) # <<>>
                /\ st.done[Len(st.done)].ok <=> SomeCheckoutSucceeded(q)

\* C11 witness: the update failed and the package is counted successful
\* after a checkout attempt that succeeded
C11_Witness ==
    /\ st.pc = "loop"
    /\ Len(st.cmds) >= 3
    /\ st.cmds[1].command.op = OP_FETCH_ALL
    /\ st.cmds[1].result.returncode # 0
    /\ SomeCheckoutSucceeded(st.cmds)
    /\ st.done[Len(st.done)].ok

\* C12: the first command of a package is the update (fetch --all) when the
\* working-copy directory is there at the call, and the clone when it is
\* not; a directory that was there before the call is never cloned into;
\* and neither command is issued a second time or after the other, so a
\* package that was cloned is never updated and one that was updated is
\* never cloned.
C12_CloneOnlyWhenAbsent ==
    /\ [](LET q == st.cmds
          IN  /\ st.pc = "fetch_all" => (q = <<>> /\ Exists(st.repo_path, st.fs))
              /\ st.pc = "clone" => (q = <<>> /\ ~Exists(st.repo_path, st.fs))
              /\ \A k \in 1..Len(q) :
                    q[k].command.op \in {OP_CLONE, OP_FETCH_ALL} => k = 1
              /\ (q # <<>> /\ q[1].command.op = OP_FETCH_ALL) => Exists(q[1].cwd, st.fs))
    /\ [][(st.pc = "loop" /\ st'.pc \in {"fetch_all", "clone"}) =>
            /\ Exists(st'.repo_path, st.fs) => st'.pc = "fetch_all"
            /\ st'.pc = "clone" => ~Exists(st'.repo_path, st.fs)]_vars

\* C12 witness: packages/foo was there before the run, and the package
\* that uses it has been updated, not cloned
C12_Witness ==
    /\ Exists(<<PACKAGES, N_FOO>>, alt.fs)
    /\ st.i = 1
    /\ Len(st.cmds) >= 2
    /\ st.cmds[1].command.op = OP_FETCH_ALL
    /\ st.cmds[1].cwd = <<PACKAGES, N_FOO>>

\* the file is a JSON object with no packages key or an empty packages list
C13_NoPackages ==
    /\ collection.state = "ok"
    /\ ~collection.has_packages \/ collection.packages = <<>>

\* C13: with no packages key or an empty list, main ends at once with a
\* nonzero status: the loop is never entered, no entry gets an outcome, no
\* command is issued, no directory is made, the counters stay untouched and
\* the summary is not reached.
C13_NoPackagesEndsAtOnce ==
    /\ [](C13_NoPackages =>
            /\ st.pc \in {"main", "exit"}
            /\ st.pc = "exit" => st.exit_code # 0
            /\ st.done = <<>>
            /\ st.cmds = <<>>
            /\ st.fs = alt.fs
            /\ st.successful = 0 /\ st.failed = 0
            /\ ~st.summary
            /\ ~st.traceback)
    /\ [][(C13_NoPackages /\ st.pc = "main") => st'.pc = "exit"]_vars

\* C13 witness: main has ended on a file with an empty packages list
C13_Witness ==
    /\ collection.state = "ok"
    /\ collection.has_packages
    /\ collection.packages = <<>>
    /\ st.pc = "exit"
    /\ st.exit_code = 1

\* the four variants were tried for the package in q and every one failed
AllFourFailed(q) ==
    LET co == Checkouts(q)
    IN  /\ Len(co) = 4
        /\ \A k \in 1..4 :
              /\ co[k].result.returncode # 0
              /\ co[k].command.args = <<ExpectedRefs(LabelOf(co[k].pkg))[k]>>

\* C14: a package whose four checkout variants all failed is counted
\* failed, as a checkout failure, with no command after the fourth attempt;
\* a run that counted such a package ends with a nonzero status; and a
\* package is counted failed as a checkout failure only when all four
\* variants failed.
C14_AllFourFailed ==
    /\ AllFourFailed(st.cmds) =>
          /\ BetweenEntries
          /\ Last(st.cmds).command.op = OP_CHECKOUT
          /\ ~Last(st.done).ok
          /\ Last(st.done).why = "CheckoutFailed"
          /\ st.failed >= 1
    /\ (BetweenEntries /\ ~st.traceback /\ st.done # <<>>
            /\ Last(st.done).why = "CheckoutFailed") => AllFourFailed(st.cmds)
    /\ (BetweenEntries /\ ~st.traceback /\ st.done # <<>> /\ Checkouts(st.cmds) # <<>>
            /\ ~Last(st.done).ok) => AllFourFailed(st.cmds)
    /\ (st.pc = "exit" /\ \E k \in 1..Len(st.done) : st.done[k].why = "CheckoutFailed")
            => st.exit_code # 0

\* C14 witness: the run has ended with a nonzero status after the one package was
\* counted failed with its four variants failed
C14_Witness ==
    /\ st.pc = "exit"
    /\ st.exit_code = 1
    /\ st.summary
    /\ Len(st.done) = 1
    /\ AllFourFailed(st.cmds)
    /\ st.done[1].why = "CheckoutFailed"

\* how many of the commands q are op
CountOf(q, op) == Cardinality({k \in 1..Len(q) : q[k].command.op = op})

\* C15: the commands issued for one entry hold at most one clone, one
\* update, one tags fetch and four checkout attempts, whichever of them
\* failed, and a failed clone is the last command of its entry, which is
\* counted failed.  The commands in hand are all of the entry in hand: the
\* entries are taken one after the other, never one a second time, and a
\* command is only ever added to those of the entry the loop stands at.
C15_NoRetry ==
    /\ [](LET q == st.cmds
          IN  /\ CountOf(q, OP_CLONE) <= 1
              /\ CountOf(q, OP_FETCH_ALL) <= 1
              /\ CountOf(q, OP_FETCH_TAGS) <= 1
              /\ CountOf(q, OP_CHECKOUT) <= 4
              /\ \A k \in 1..Len(q) :
                    q[k].pkg = (IF st.pc = "loop" \/ st.summary THEN st.i - 1 ELSE st.i)
              /\ \A k \in 1..Len(q) :
                    (q[k].command.op = OP_CLONE /\ q[k].result.returncode # 0) =>
                        /\ Len(q) = 1
                        /\ BetweenEntries
                        /\ ~Last(st.done).ok
                        /\ Last(st.done).why = "CloneFailed")
    /\ [][/\ st'.i >= st.i
          /\ st.pc = "loop" => (st'.cmds = <<>> \/ st'.summary)
          /\ st.pc \notin {"main", "loop", "exit"} =>
                /\ Len(st'.cmds) = Len(st.cmds) + 1
                /\ SubSeq(st'.cmds, 1, Len(st.cmds)) = st.cmds
                /\ Last(st'.cmds).pkg = st.i]_vars

\* C15 witness: the clone of the second entry failed after the first entry
\* made its four checkout attempts, and the loop has gone on
C15_Witness ==
    /\ st.pc = "loop"
    /\ st.i = 3
    /\ Len(st.done) = 2
    /\ st.done[1].why = "CheckoutFailed"
    /\ st.done[2].why = "CloneFailed"
    /\ Len(st.cmds) = 1
    /\ st.cmds[1].command.op = OP_CLONE
    /\ st.cmds[1].result.returncode # 0

\* entry p gets as far as its first version descriptor, which has no label
C16_FirstUnlabelled(p) ==
    /\ p.has_url /\ p.url # <<>>
    /\ p.has_versions /\ p.versions # <<>>
    /\ ~p.versions[1].has_version \/ p.versions[1].version = <<>>

\* C16 (SpecFirst): the label of every checkout attempt is made of the
\* version of the first descriptor of the entry; the run issues the
\* commands, gets the outcomes, the counters and the exit status of the run
\* over the file with the later descriptors taken away; and an entry whose
\* first descriptor has no label is counted failed whatever the later
\* descriptors hold.
C16_FirstDescriptorOnly ==
    /\ \A k \in 1..Len(st.cmds) :
          st.cmds[k].command.op = OP_CHECKOUT =>
              \E n \in 1..4 :
                  st.cmds[k].command.args =
                      <<ExpectedRefs(collection.packages[st.cmds[k].pkg].versions[1].version)[n]>>
    /\ [st EXCEPT !.packages = <<>>] = [alt EXCEPT !.packages = <<>>]
    /\ \A k \in 1..Len(st.done) :
          C16_FirstUnlabelled(collection.packages[k]) =>
              /\ ~st.done[k].ok
              /\ st.done[k].why = "MissingVersion"

\* C16 witness: the first entry, with no label in its first descriptor and
\* 1.2.0 in its second, was counted failed; the second entry, with 2.0 in
\* its first descriptor and 1.2.0 in its second, was counted successful
\* after a checkout of 2.0
C16_Witness ==
    /\ st.pc = "loop"
    /\ Len(st.done) = 2
    /\ Len(collection.packages[1].versions) = 2
    /\ ~collection.packages[1].versions[1].has_version
    /\ collection.packages[1].versions[2].version = V_120
    /\ ~st.done[1].ok
    /\ Len(collection.packages[2].versions) = 2
    /\ collection.packages[2].versions[2].version = V_120
    /\ st.done[2].ok
    /\ Checkouts(st.cmds) # <<>>
    /\ Checkouts(st.cmds)[1].command.args = <<V_20>>
    /\ alt.done = st.done

\* C17 as written (SpecTwice): when the second run has ended, it has given
\* every entry the outcome the first run gave it.
C17_Original ==
    (flip = 1 /\ alt.pc = "exit") =>
        /\ Len(alt.done) = Len(st.done)
        /\ \A k \in 1..Len(st.done) : alt.done[k].ok = st.done[k].ok

\* C18 as written: for an entry that reaches the fetch step the name of the
\* working copy is one non-empty path segment, and the working copy is a
\* directory inside the output directory, never the output directory.
C18_Original ==
    /\ st.pc \in {"fetch_all", "clone"} =>
          /\ st.repo_name # <<>>
          /\ ~Contains(st.repo_name, "/")
          /\ st.repo_path = <<PACKAGES, st.repo_name>>
          /\ ResolvePath(st.repo_path) # ResolvePath(output_dir)
    /\ \A k \in 1..Len(st.cmds) :
          st.cmds[k].command.op # OP_CLONE =>
              ResolvePath(st.cmds[k].cwd) # ResolvePath(output_dir)


=============================================================================
